---- MODULE Spec2Model ----
(***************************************************************************)
(* A model of czubix/scheduler (src/scheduler/__init__.py): the Schedule   *)
(* entity, the Scheduler's four buckets, its administrative API and its    *)
(* poll loop.                                                              *)
(*                                                                         *)
(* Time is counted in clock ticks of 1/TicksPerSec second and passes while *)
(* the poll loop sleeps; every call is made at one instant.  A point in    *)
(* time is a float of the size of time.time(): the floats of that size are *)
(* one tick apart.  A duration (Schedule.interval) is a far smaller float  *)
(* and is counted in sub-ticks, SubTicks to the tick; a sum of a point in  *)
(* time and a duration is rounded to the nearest tick, as float addition   *)
(* rounds it.  A Schedule                                                  *)
(* object is named by its handle, its index in objs (Python identity).     *)
(* An optional argument is a sequence: <<>> is None, <<v>> is the value v. *)
(* A string that is parsed is the sequence of the code points (ord) of its *)
(* characters: "1s" is <<49, 115>>.                                        *)
(***************************************************************************)
EXTENDS Integers, Sequences, FiniteSets, TLC

VARIABLES
    now,                 \* time.time(), in ticks
    objs,                \* every Schedule object constructed so far, by handle
    schedules,           \* Scheduler.schedules (active, visible), handles
    finished_schedules,  \* Scheduler.finished_schedules
    canceled_schedules,  \* Scheduler.canceled_schedules
    hidden_schedules,    \* Scheduler._hidden_schedules
    check_interval,      \* Scheduler.check_interval, in ticks
    loop,                \* the task running _run: "ready" (about to make a
                         \* pass), "sleeping", "crashed" (ended by an
                         \* exception), "none" (no Scheduler was constructed)
    pending,             \* coroutines given to loop.create_task and not yet run
    last,                \* the last call made, its argument and how it ended
    cancel_done,         \* the Schedules a completed cancel_schedules call was
                         \* given and no uncancel_schedules call since
    dropped,             \* the Schedules a pass of the poll loop has removed
                         \* from the hidden bucket
    tempdict,            \* the items of the TempDict, in insertion order
    timestamps,          \* TempDict.timestamps, in ticks
    lifetime,            \* TempDict.lifetime, in seconds
    td_schedule          \* TempDict.schedule, a handle; 0 while there is no
                         \* TempDict

vars == <<now, objs, schedules, finished_schedules, canceled_schedules,
          hidden_schedules, check_interval, loop, pending, last, cancel_done,
          dropped, tempdict, timestamps, lifetime, td_schedule>>

\* the TempDict
ttl == <<tempdict, timestamps, lifetime, td_schedule>>

----------------------------------------------------------------------------
\* Bounds of the model.

TicksPerSec == 2    \* clock ticks per second
SubTicks == 2       \* the steps of a duration within one clock tick
MaxTime == 3        \* the clock stops here
MaxObjs == 2        \* Schedule objects, the housekeeping one included
MaxBulk == 3        \* the same, where only the administrative API is called
MaxExtra == 1       \* entries in the four buckets beyond one for each object

----------------------------------------------------------------------------
\* Sequences as Python lists.

Range(s) == {s[i] : i \in 1..Len(s)}

\* list.index: the position of the first x in s (x is in s)
IndexOf(s, x) == CHOOSE i \in 1..Len(s) : s[i] = x /\ \A j \in 1..(i - 1) : s[j] # x

\* list.remove on a list that holds x: the first x goes
Remove(s, x) ==
    LET i == IndexOf(s, x)
    IN  [j \in 1..(Len(s) - 1) |-> IF j < i THEN s[j] ELSE s[j + 1]]

----------------------------------------------------------------------------
\* str_to_secs

\* UNITS, by ord("s"), ord("m"), ord("h"), ord("d")
UNITS == [u \in {115, 109, 104, 100} |->
            CASE u = 115 -> 1 [] u = 109 -> 60 [] u = 104 -> 3600 [] u = 100 -> 86400]

\* the characters with int(c) = 0: the zero of every run of ten decimal digits
\* of Unicode (category Nd), ord("0") = 48 first
DigitZeros ==
    {48, 1632, 1776, 1984, 2406, 2534, 2662, 2790, 2918, 3046, 3174, 3302,
     3430, 3558, 3664, 3792, 3872, 4160, 4240, 6112, 6160, 6470, 6608,
     6784, 6800, 6992, 7088, 7232, 7248, 42528, 43216, 43264, 43472, 43504,
     43600, 44016, 65296, 66720, 68912, 69734, 69872, 69942, 70096, 70384,
     70736, 70864, 71248, 71360, 71472, 71904, 72016, 72784, 73040, 73120,
     92768, 92864, 93008, 120782, 120792, 120802, 120812, 120822, 123200,
     123632, 125264, 130032}

\* the characters \d matches in a str pattern
Digits == UNION {z..(z + 9) : z \in DigitZeros}

IsDigit(c) == c \in Digits

\* int(c) for a digit c
DigitVal(c) == c - (CHOOSE z \in DigitZeros : c \in z..(z + 9))

\* TIME_PATTERN.findall summed: at position i with the digits read so far
\* (have: whether any was read, acc: their value).  A run of digits followed
\* by a unit is one match; anything else is skipped.
RECURSIVE ScanSecs(_, _, _, _)
ScanSecs(x, i, have, acc) ==
    IF i > Len(x) THEN 0
    ELSE IF IsDigit(x[i]) THEN ScanSecs(x, i + 1, TRUE, acc * 10 + DigitVal(x[i]))
    ELSE IF have /\ x[i] \in DOMAIN UNITS
         THEN acc * UNITS[x[i]] + ScanSecs(x, i + 1, FALSE, 0)
    ELSE ScanSecs(x, i + 1, FALSE, 0)

str_to_secs(x) == ScanSecs(x, 1, FALSE, 0)

----------------------------------------------------------------------------
\* ScheduleFlags and Schedule

ONCE == 1
MULTIPLE == 2
REPEAT == 4
HIDDEN == 8

\* float("inf"): above every call count the model reaches
Inf == 1000000

\* flags & bit == bit, for a one-bit mask
HasFlag(flags, bit) == (flags \div bit) % 2 = 1

\* flags | bit
OrFlag(flags, bit) == IF HasFlag(flags, bit) THEN flags ELSE flags + bit

\* flags ^ bit
XorFlag(flags, bit) == IF HasFlag(flags, bit) THEN flags - bit ELSE flags + bit

\* n seconds as a duration, in sub-ticks
Secs(n) == n * TicksPerSec * SubTicks

\* the float nearest to x sub-ticks among those of the size of time.time(),
\* in ticks; of two that are equally near, the one with an even significand
Nearest(x) ==
    LET q == x \div SubTicks
        r == x % SubTicks
    IN  IF 2 * r < SubTicks THEN q
        ELSE IF 2 * r > SubTicks THEN q + 1
        ELSE IF q % 2 = 0 THEN q ELSE q + 1

\* t + d in float arithmetic: t a point in time in ticks, d a duration in
\* sub-ticks
FloatAdd(t, d) == Nearest(t * SubTicks + d)

\* Schedule.__init__; interval a duration in sub-ticks, times optional
NewSchedule(task, interval, name, times) ==
    [ task       |-> task,
      interval   |-> interval,
      timestamp  |-> FloatAdd(now, interval),
      created_at |-> now,
      name       |-> name,
      flags      |-> IF times = <<>> THEN REPEAT
                     ELSE IF times[1] = 1 THEN ONCE
                     ELSE IF times[1] > 1 /\ times[1] # Inf THEN MULTIPLE
                     ELSE 0,
      times      |-> IF times = <<>> \/ times[1] = 0 THEN Inf ELSE times[1],
      calls      |-> 0 ]

\* the part of Schedule.__call__ before the task is called
Fire(o) == [o EXCEPT !.timestamp = FloatAdd(@, o.interval), !.calls = @ + 1]

----------------------------------------------------------------------------
\* The Scheduler's collections, as a record the operations below transform.
\* err is the exception the operation ended with ("" for none), fired the
\* Schedules the operation called, in order.

Buckets ==
    [ objs               |-> objs,
      schedules          |-> schedules,
      finished_schedules |-> finished_schedules,
      canceled_schedules |-> canceled_schedules,
      hidden_schedules   |-> hidden_schedules,
      pending            |-> pending,
      fired              |-> <<>>,
      err                |-> "" ]

Raise(st, e) == [st EXCEPT !.err = e]

\* An argument `schedules` of the administrative calls:
\*   kind "none"      None
\*   kind "schedule"  one Schedule, items = <<handle>>
\*   kind "list"      a list of the caller's, items = its handles
\*   kind "live"      the list object self.schedules, as get_schedules() returns it
ArgNone == [kind |-> "none", items |-> <<>>]
ArgSchedule(h) == [kind |-> "schedule", items |-> <<h>>]
ArgList(hs) == [kind |-> "list", items |-> hs]
ArgLive == [kind |-> "live", items |-> <<>>]

\* `schedules = schedules or self.<dflt>` and the wrapping of one Schedule:
\* the list the call iterates, either one of the Scheduler's own lists
\* (alias) or a list of the caller's (items)
Resolve(st, arg, dflt) ==
    IF arg.kind \in {"schedule", "list"} /\ arg.items # <<>>
    THEN [alias |-> "", items |-> arg.items]
    ELSE IF arg.kind = "live" /\ st.schedules # <<>>
    THEN [alias |-> "schedules", items |-> <<>>]
    ELSE [alias |-> dflt, items |-> <<>>]

\* the list being iterated, as it is now
Current(st, src) ==
    IF src.alias = "schedules" THEN st.schedules
    ELSE IF src.alias = "canceled_schedules" THEN st.canceled_schedules
    ELSE IF src.alias = "hidden_schedules" THEN st.hidden_schedules
    ELSE src.items

\* Scheduler.get_schedules; name is optional, check is "" (None) or the name
\* of a predicate on a Schedule
CheckHolds(check, o) ==
    CASE check = "fired"  -> o.calls > 0
      [] check = "repeat" -> HasFlag(o.flags, REPEAT)
      [] OTHER            -> FALSE

RECURSIVE Matching(_, _, _, _)
Matching(st, name, check, i) ==
    IF i > Len(st.schedules) THEN <<>>
    ELSE LET h == st.schedules[i]
             o == st.objs[h]
             rest == Matching(st, name, check, i + 1)
         IN  IF (name # <<>> /\ name[1] # "" /\ o.name = name[1])
                \/ (check # "" /\ CheckHolds(check, o))
             THEN <<h>> \o rest
             ELSE rest

get_schedules(st, name, check) ==
    IF name = <<>> /\ check = "" THEN ArgLive
    ELSE ArgList(Matching(st, name, check, 1))

\* uuid.uuid4().hex: a fresh token
uuid4 == <<"uuid1", "uuid2", "uuid3", "uuid4", "uuid5", "uuid6", "uuid7", "uuid8">>

\* An argument `interval` of create_schedule: an int (secs), a str (chars) or
\* a datetime (at, the point in time in sub-ticks: a datetime counts
\* microseconds, which the floats of the size of time.time() do not hold)
IntervalInt(n) == [type |-> "int", secs |-> n, chars |-> <<>>, at |-> 0]
IntervalStr(x) == [type |-> "str", secs |-> 0, chars |-> x, at |-> 0]
IntervalDatetime(t) == [type |-> "datetime", secs |-> 0, chars |-> <<>>, at |-> t]

\* datetime.now(), in sub-ticks
datetime_now == now * SubTicks

\* datetime - datetime: the timedelta of d sub-ticks, whole seconds (of
\* either sign) and a part of a second that is never negative
timedelta(d) == [seconds |-> d \div Secs(1), microseconds |-> d % Secs(1)]

\* timedelta.total_seconds(): a duration, in sub-ticks
total_seconds(td) == Secs(td.seconds) + td.microseconds

\* An argument `name`: a str, or a value that is no str
NameStr(x) == [isstr |-> TRUE, v |-> x]
NameOther == [isstr |-> FALSE, v |-> "42"]

\* a create_schedule that passes the caller's times on for every interval
create_schedule_times_kept(st, task, interval, name, times) ==
    LET duration == IF interval.type = "datetime"
                        THEN total_seconds(timedelta(interval.at - datetime_now))
                    ELSE IF interval.type = "str" THEN Secs(str_to_secs(interval.chars))
                    ELSE Secs(interval.secs)
        nm == IF name = <<>> THEN NameStr(uuid4[Len(st.objs) + 1]) ELSE name[1]
    IN  IF ~nm.isstr THEN Raise(st, "TypeError")
        ELSE [st EXCEPT !.objs = Append(@, NewSchedule(task, duration, nm.v, times)),
                        !.schedules = Append(@, Len(st.objs) + 1)]

\* Scheduler.create_schedule; name and times are optional
create_schedule(st, task, interval, name, times) ==
    LET duration == IF interval.type = "datetime"
                        THEN total_seconds(timedelta(interval.at - datetime_now))
                    ELSE IF interval.type = "str" THEN Secs(str_to_secs(interval.chars))
                    ELSE Secs(interval.secs)
        \* kwargs["times"] = 1
        tm == IF interval.type = "datetime" THEN <<1>> ELSE times
        nm == IF name = <<>> THEN NameStr(uuid4[Len(st.objs) + 1]) ELSE name[1]
    IN  IF ~nm.isstr THEN Raise(st, "TypeError")
        ELSE [st EXCEPT !.objs = Append(@, NewSchedule(task, duration, nm.v, tm)),
                        !.schedules = Append(@, Len(st.objs) + 1)]

\* Scheduler.cancel_schedules: the loop, at position i of the list iterated
RECURSIVE CancelLoop(_, _, _)
CancelLoop(st, src, i) ==
    IF i > Len(Current(st, src)) THEN st
    ELSE LET h == Current(st, src)[i]
             st1 == [st EXCEPT !.canceled_schedules = Append(@, h)]
         IN  IF h \notin Range(st1.schedules) THEN Raise(st1, "ValueError")
             ELSE CancelLoop([st1 EXCEPT !.schedules = Remove(@, h)], src, i + 1)

cancel_schedules(st, arg) == CancelLoop(st, Resolve(st, arg, "schedules"), 1)

\* Scheduler.uncancel_schedules
RECURSIVE UncancelLoop(_, _, _)
UncancelLoop(st, src, i) ==
    IF i > Len(Current(st, src)) THEN st
    ELSE LET h == Current(st, src)[i]
             st1 == [st EXCEPT !.schedules = Append(@, h)]
         IN  IF h \notin Range(st1.canceled_schedules) THEN Raise(st1, "ValueError")
             ELSE UncancelLoop([st1 EXCEPT !.canceled_schedules = Remove(@, h)],
                               src, i + 1)

uncancel_schedules(st, arg) ==
    UncancelLoop(st, Resolve(st, arg, "canceled_schedules"), 1)

\* Scheduler.hide_schedules
RECURSIVE HideLoop(_, _, _)
HideLoop(st, src, i) ==
    IF i > Len(Current(st, src)) THEN st
    ELSE LET h == Current(st, src)[i]
         IN  IF HasFlag(st.objs[h].flags, HIDDEN) THEN HideLoop(st, src, i + 1)
             ELSE LET st1 == [st EXCEPT
                                !.objs[h].flags = OrFlag(@, HIDDEN),
                                !.hidden_schedules = Append(@, h)]
                  IN  IF h \notin Range(st1.schedules) THEN Raise(st1, "ValueError")
                      ELSE HideLoop([st1 EXCEPT !.schedules = Remove(@, h)],
                                    src, i + 1)

hide_schedules(st, arg) == HideLoop(st, Resolve(st, arg, "schedules"), 1)

\* Scheduler.unhide_schedules
RECURSIVE UnhideLoop(_, _, _)
UnhideLoop(st, src, i) ==
    IF i > Len(Current(st, src)) THEN st
    ELSE LET h == Current(st, src)[i]
         IN  IF ~HasFlag(st.objs[h].flags, HIDDEN) THEN UnhideLoop(st, src, i + 1)
             ELSE LET st1 == [st EXCEPT
                                !.objs[h].flags = XorFlag(@, HIDDEN),
                                !.schedules = Append(@, h)]
                  IN  IF h \notin Range(st1.hidden_schedules)
                      THEN Raise(st1, "ValueError")
                      ELSE UnhideLoop([st1 EXCEPT !.hidden_schedules = Remove(@, h)],
                                      src, i + 1)

\* unhide_schedules, were its default the hidden bucket
unhide_hidden_by_default(st, arg) ==
    UnhideLoop(st, Resolve(st, arg, "hidden_schedules"), 1)

unhide_schedules(st, arg) == UnhideLoop(st, Resolve(st, arg, "schedules"), 1)

\* clear_schedules, were it to empty the hidden bucket as well
clear_every_bucket(st) ==
    [st EXCEPT !.schedules = <<>>,
               !.finished_schedules = <<>>,
               !.canceled_schedules = <<>>,
               !.hidden_schedules = <<>>]

\* Scheduler.clear_schedules
clear_schedules(st) ==
    [st EXCEPT !.schedules = <<>>,
               !.finished_schedules = <<>>,
               !.canceled_schedules = <<>>]

\* Scheduler._schedule_cleaner
schedule_cleaner(st) ==
    [st EXCEPT !.finished_schedules = <<>>, !.canceled_schedules = <<>>]

\* Scheduler._run: one pass of the for loop over the list snap, at position i
RECURSIVE RunLoop(_, _, _)
RunLoop(st, snap, i) ==
    IF i > Len(snap) THEN st
    ELSE
    LET h == snap[i]
        o == st.objs[h]
        \* self.loop.create_task(schedule()): the Schedule is called here, in
        \* the poll loop; what its task returns runs later
        Dispatch(s) ==
            LET s1 == [s EXCEPT !.objs[h] = Fire(@), !.fired = Append(@, h)]
            IN  IF o.task = "call_raises" THEN Raise(s1, "TaskError")
                ELSE RunLoop([s1 EXCEPT !.pending = Append(@, h)], snap, i + 1)
    IN  IF ~(o.timestamp <= now) THEN RunLoop(st, snap, i + 1)
        ELSE IF o.calls >= o.times
        THEN IF HasFlag(o.flags, HIDDEN)
             THEN IF h \notin Range(st.hidden_schedules) THEN Raise(st, "ValueError")
                  ELSE RunLoop([st EXCEPT !.hidden_schedules = Remove(@, h)],
                               snap, i + 1)
             ELSE LET st1 == [st EXCEPT !.finished_schedules = Append(@, h)]
                  IN  IF h \notin Range(st1.schedules) THEN Raise(st1, "ValueError")
                      ELSE Dispatch([st1 EXCEPT !.schedules = Remove(@, h)])
        ELSE Dispatch(st)

\* one iteration of the while loop of Scheduler._run, up to the sleep
run_once(st) == RunLoop(st, st.schedules \o st.hidden_schedules, 1)

\* the coroutine a dispatched Schedule's task returned, run by the event loop
run_task(st, h) ==
    IF st.objs[h].task = "schedule_cleaner" THEN schedule_cleaner(st)
    ELSE IF st.objs[h].task = "coro_raises" THEN Raise(st, "TaskError")
    ELSE st

\* Scheduler.__init__; check_interval (in ticks) and cleaner_interval optional
NoScheduler ==
    [ objs |-> <<>>, schedules |-> <<>>, finished_schedules |-> <<>>,
      canceled_schedules |-> <<>>, hidden_schedules |-> <<>>,
      pending |-> <<>>, fired |-> <<>>, err |-> "" ]

CheckInterval(arg) == IF arg = <<>> \/ arg[1] = 0 THEN TicksPerSec ELSE arg[1]

Scheduler(ci, cleaner_interval) ==
    IF CheckInterval(ci) > TicksPerSec \/ CheckInterval(ci) <= 0
    THEN Raise(NoScheduler, "ValueError")
    ELSE LET x == IF cleaner_interval = <<>> \/ cleaner_interval[1] = <<>>
                  THEN <<49, 104>> ELSE cleaner_interval[1]
             st == create_schedule(NoScheduler, "schedule_cleaner", IntervalStr(x),
                                   <<NameStr("schedule_cleaner")>>, <<>>)
         IN  hide_schedules(st, ArgSchedule(Len(st.objs)))

----------------------------------------------------------------------------
\* TempDict: a dict whose keys a Schedule of the Scheduler sweeps.

\* self.timestamps, a dict, as a function on its keys
EmptyMap == [k \in {} |-> 0]
Put(f, k, v) == [x \in DOMAIN f \cup {k} |-> IF x = k THEN v ELSE f[x]]
Del(f, ks) == [x \in DOMAIN f \ ks |-> f[x]]

\* The TempDict itself, a dict, as the sequence of its items [key, value] in
\* insertion order (the order popitem goes by).
Item(k, v) == [key |-> k, value |-> v]
DictKeys(d) == {d[i].key : i \in 1..Len(d)}
DictGet(d, k) == d[CHOOSE i \in 1..Len(d) : d[i].key = k].value
\* d[k] = v: a key that is present keeps its place
DictSet(d, k, v) ==
    IF k \in DictKeys(d)
    THEN [i \in 1..Len(d) |-> IF d[i].key = k THEN Item(k, v) ELSE d[i]]
    ELSE Append(d, Item(k, v))
DictDel(d, ks) == SelectSeq(d, LAMBDA e : e.key \notin ks)

\* the TempDict as a record the operations below transform; ret is what the
\* operation returned (<<>> for nothing), err the exception it ended with
TempDictNow ==
    [ items |-> tempdict, timestamps |-> timestamps, lifetime |-> lifetime,
      ret |-> <<>>, err |-> "" ]

\* TempDict.__init__, without the Schedule it creates
TempDict(lt) ==
    [ items |-> <<>>, timestamps |-> EmptyMap,
      lifetime |-> IF lt.type = "str" THEN str_to_secs(lt.chars) ELSE lt.secs,
      ret |-> <<>>, err |-> "" ]

\* TempDict.__setitem__
setitem(td, item, value) ==
    [td EXCEPT !.timestamps = Put(@, item, now), !.items = DictSet(@, item, value)]

\* TempDict.__getitem__
getitem(td, item) ==
    LET td1 == [td EXCEPT !.timestamps = Put(@, item, now)]
    IN  IF item \in DictKeys(td1.items)
        THEN [td1 EXCEPT !.ret = <<DictGet(td1.items, item)>>]
        ELSE [td1 EXCEPT !.err = "KeyError"]

\* a sweep that removes every key
sweep_every_key(td) ==
    [td EXCEPT !.timestamps = EmptyMap, !.items = <<>>]

\* TempDict.task
tempdict_task(td) ==
    LET keys_to_delete ==
            {key \in DOMAIN td.timestamps :
                now - td.timestamps[key] >= td.lifetime * TicksPerSec}
    IN  [td EXCEPT !.timestamps = Del(@, keys_to_delete),
                   !.items = DictDel(@, keys_to_delete)]

\* The methods TempDict inherits from dict and does not override: they work
\* on the items and leave self.timestamps alone.

\* dict.update(other), other a dict: its items are set in order, from the i-th
RECURSIVE UpdateFrom(_, _, _)
UpdateFrom(d, other, i) ==
    IF i > Len(other) THEN d
    ELSE UpdateFrom(DictSet(d, other[i].key, other[i].value), other, i + 1)

update(td, other) == [td EXCEPT !.items = UpdateFrom(@, other, 1)]

\* dict.__ior__: d |= other; what it returns is the dict itself
ior(td, other) ==
    LET d == UpdateFrom(td.items, other, 1)
    IN  [td EXCEPT !.items = d, !.ret = <<d>>]

\* dict.setdefault(item, default)
setdefault(td, item, default) ==
    IF item \in DictKeys(td.items) THEN [td EXCEPT !.ret = <<DictGet(td.items, item)>>]
    ELSE [td EXCEPT !.items = Append(@, Item(item, default)), !.ret = <<default>>]

\* dict.pop(item), without a default
pop(td, item) ==
    IF item \in DictKeys(td.items)
    THEN [td EXCEPT !.items = DictDel(@, {item}), !.ret = <<DictGet(td.items, item)>>]
    ELSE [td EXCEPT !.err = "KeyError"]

\* dict.popitem(): the item inserted last; ret is its key and its value
popitem(td) ==
    IF td.items = <<>> THEN [td EXCEPT !.err = "KeyError"]
    ELSE LET e == td.items[Len(td.items)]
         IN  [td EXCEPT !.items = SubSeq(@, 1, Len(@) - 1),
                        !.ret = <<e.key, e.value>>]

\* dict.__delitem__: del d[item]
delitem(td, item) ==
    IF item \in DictKeys(td.items) THEN [td EXCEPT !.items = DictDel(@, {item})]
    ELSE [td EXCEPT !.err = "KeyError"]

\* dict.clear()
clear(td) == [td EXCEPT !.items = <<>>]

----------------------------------------------------------------------------
\* The inputs the model draws.

CheckIntervalArgs == {<<>>} \cup {<<n>> : n \in (0 - 1)..(TicksPerSec + 1)}
\* absent, or "1s" written with ARABIC-INDIC DIGIT ONE (U+0661)
CleanerIntervalArgs == {<<>>, << <<1633, 115>> >>}
Tasks == {"coro", "coro_raises", "call_raises"}
IntervalArgs == {IntervalInt(0), IntervalStr(<<49, 115>>)}
NameArgs == {<<>>, <<NameOther>>}
TimesArgs == {<<>>, <<1>>, <<2>>}
\* every kind of fire budget: absent, 0, 1, a finite N > 1, infinite
BudgetArgs == {<<>>, <<0>>, <<1>>, <<2>>, <<Inf>>}
\* how far from now a datetime is, in sub-ticks: a second ago, now, a tick
\* and a fraction of a tick ahead, a second ahead
DatetimeOffsets == {0 - Secs(1), 0, SubTicks + 1, Secs(1)}
DatetimeArgs == {IntervalDatetime(datetime_now + d) : d \in DatetimeOffsets}
LifetimeArgs == {IntervalInt(0), IntervalStr(<<49, 115>>)}
Keys == {"a", "b"}
Values == {"v1", "v2"}
\* the dicts passed to update and |=
Others == {<<Item(k, v)>> : k \in Keys, v \in Values}
GetNames == {<<>>, <<"schedule_cleaner">>, <<"uuid2">>}
GetChecks == {"", "fired"}

\* the handles a caller holds: what create_schedule returned to it
Handles == 2..Len(objs)

\* the arguments a caller passes for `schedules`
Args ==
    {ArgNone} \cup {ArgSchedule(h) : h \in Handles}
    \cup {get_schedules(Buckets, n, c) : n \in GetNames, c \in GetChecks}

\* the Schedules a call with argument arg is given; dflt is the bucket that
\* stands in for None
Given(arg, dflt) ==
    IF arg.kind \in {"schedule", "list"} /\ arg.items # <<>> THEN Range(arg.items)
    ELSE IF arg.kind = "live" /\ schedules # <<>> THEN Range(schedules)
    ELSE Range(dflt)

----------------------------------------------------------------------------
\* The state machine.

Call(op, arg, err) == [op |-> op, arg |-> arg, err |-> err]

InBounds(st) ==
    Len(st.schedules) + Len(st.finished_schedules) + Len(st.canceled_schedules)
        + Len(st.hidden_schedules) <= Len(st.objs) + MaxExtra

\* the Scheduler's collections become those of st
Commit(st) ==
    /\ objs' = st.objs
    /\ schedules' = st.schedules
    /\ finished_schedules' = st.finished_schedules
    /\ canceled_schedules' = st.canceled_schedules
    /\ hidden_schedules' = st.hidden_schedules
    /\ pending' = st.pending

Init ==
    \E ci \in CheckIntervalArgs, cl \in CleanerIntervalArgs :
        LET st == Scheduler(ci, cl)
        IN  /\ now = 0
            /\ objs = st.objs
            /\ schedules = st.schedules
            /\ finished_schedules = st.finished_schedules
            /\ canceled_schedules = st.canceled_schedules
            /\ hidden_schedules = st.hidden_schedules
            /\ pending = st.pending
            /\ check_interval = IF st.err = "" THEN CheckInterval(ci) ELSE 0
            /\ loop = IF st.err = "" THEN "ready" ELSE "none"
            /\ last = Call("Scheduler", [kind |-> "check_interval", items |-> ci],
                           st.err)
            /\ cancel_done = {}
            /\ dropped = {}
            /\ tempdict = <<>>
            /\ timestamps = EmptyMap
            /\ lifetime = 0
            /\ td_schedule = 0

\* a call of the administrative API
Admin(op, arg, st) ==
    /\ loop # "none"
    /\ InBounds(st)
    /\ Commit(st)
    /\ last' = Call(op, arg, st.err)
    /\ UNCHANGED <<now, check_interval, loop, dropped, ttl>>

CreateSchedule ==
    /\ Len(objs) < MaxObjs
    /\ \E task \in Tasks, interval \in IntervalArgs, name \in NameArgs,
          times \in TimesArgs :
          Admin("create_schedule", ArgNone,
                create_schedule(Buckets, task, interval, name, times))
    /\ UNCHANGED cancel_done

\* create_schedule where only the administrative API is called
CreateBulk ==
    /\ Len(objs) < MaxBulk
    /\ Admin("create_schedule", ArgNone,
             create_schedule(Buckets, "coro", IntervalInt(0), <<>>, <<>>))
    /\ UNCHANGED cancel_done

\* create_schedule with every kind of interval and of fire budget
CreateAny ==
    /\ Len(objs) < MaxObjs
    /\ \E interval \in IntervalArgs \cup DatetimeArgs, times \in BudgetArgs :
          Admin("create_schedule", [kind |-> interval.type, items |-> times],
                create_schedule(Buckets, "coro", interval, <<>>, times))
    /\ UNCHANGED cancel_done

\* TempDict(scheduler, lifetime): the sweep becomes a Schedule of the Scheduler
NewTempDict ==
    /\ td_schedule = 0
    /\ loop # "none"
    /\ Len(objs) < MaxObjs
    /\ \E lt \in LifetimeArgs :
          LET td == TempDict(lt)
              st == create_schedule(Buckets, "tempdict_task",
                                    IntervalStr(<<49, 115>>), <<>>, <<>>)
          IN  /\ InBounds(st)
              /\ Commit(st)
              /\ tempdict' = td.items
              /\ timestamps' = td.timestamps
              /\ lifetime' = td.lifetime
              /\ td_schedule' = Len(st.objs)
              /\ last' = Call("TempDict", ArgNone, st.err)
    /\ UNCHANGED <<now, check_interval, loop, cancel_done, dropped>>

\* a call on the TempDict
Access(op, args, td) ==
    /\ tempdict' = td.items
    /\ timestamps' = td.timestamps
    /\ last' = Call(op, [kind |-> "item", items |-> args \o td.ret], td.err)
    /\ UNCHANGED <<now, objs, schedules, finished_schedules, canceled_schedules,
                   hidden_schedules, check_interval, loop, pending, cancel_done,
                   dropped, lifetime, td_schedule>>

\* d[item] = value
SetItem ==
    /\ td_schedule # 0
    /\ \E item \in Keys, value \in Values :
          Access("setitem", <<item>>,
                 [setitem(TempDictNow, item, value) EXCEPT !.ret = <<value>>])

\* d[item]
GetItem ==
    /\ td_schedule # 0
    /\ \E item \in Keys : Access("getitem", <<item>>, getitem(TempDictNow, item))

\* d.update(other)
Update ==
    /\ td_schedule # 0
    /\ \E other \in Others :
          Access("update", <<other[1].key, other[1].value>>,
                 update(TempDictNow, other))

\* d |= other
InPlaceOr ==
    /\ td_schedule # 0
    /\ \E other \in Others :
          Access("ior", <<other[1].key, other[1].value>>, ior(TempDictNow, other))

\* d.setdefault(item, default)
SetDefault ==
    /\ td_schedule # 0
    /\ \E item \in Keys, default \in Values :
          Access("setdefault", <<item, default>>,
                 setdefault(TempDictNow, item, default))

\* d.pop(item)
Pop ==
    /\ td_schedule # 0
    /\ \E item \in Keys : Access("pop", <<item>>, pop(TempDictNow, item))

\* d.popitem()
PopItem ==
    /\ td_schedule # 0
    /\ Access("popitem", <<>>, popitem(TempDictNow))

\* del d[item]
DelItem ==
    /\ td_schedule # 0
    /\ \E item \in Keys : Access("delitem", <<item>>, delitem(TempDictNow, item))

\* d.clear()
Clear ==
    /\ td_schedule # 0
    /\ Access("clear", <<>>, clear(TempDictNow))

CancelSchedules ==
    \E arg \in Args :
        LET st == cancel_schedules(Buckets, arg)
        IN  /\ Admin("cancel_schedules", arg, st)
            /\ cancel_done' = IF st.err = "" THEN cancel_done \cup Given(arg, schedules)
                              ELSE cancel_done

UncancelSchedules ==
    \E arg \in Args :
        /\ Admin("uncancel_schedules", arg, uncancel_schedules(Buckets, arg))
        /\ cancel_done' = cancel_done \ Given(arg, canceled_schedules)

HideSchedules ==
    /\ \E arg \in Args : Admin("hide_schedules", arg, hide_schedules(Buckets, arg))
    /\ UNCHANGED cancel_done

UnhideSchedules ==
    /\ \E arg \in Args : Admin("unhide_schedules", arg, unhide_schedules(Buckets, arg))
    /\ UNCHANGED cancel_done

ClearSchedules ==
    /\ Admin("clear_schedules", ArgNone, clear_schedules(Buckets))
    /\ UNCHANGED cancel_done

\* the poll loop makes one pass and goes to sleep; an exception ends it
Tick ==
    /\ loop = "ready"
    /\ LET st == run_once(Buckets)
       IN  /\ InBounds(st)
           /\ Commit(st)
           /\ loop' = IF st.err = "" THEN "sleeping" ELSE "crashed"
           /\ last' = Call("run", ArgList(st.fired), st.err)
           /\ dropped' = dropped \cup (Range(hidden_schedules)
                                         \ Range(st.hidden_schedules))
    /\ UNCHANGED <<now, check_interval, cancel_done, ttl>>

\* the event loop runs the oldest coroutine a pass dispatched
RunTask ==
    /\ pending # <<>>
    /\ LET h == Head(pending)
           st == run_task([Buckets EXCEPT !.pending = Tail(@)], h)
       IN  /\ Commit(st)
           /\ last' = Call("task", ArgSchedule(h), st.err)
           /\ IF objs[h].task = "tempdict_task"
              THEN LET td == tempdict_task(TempDictNow)
                   IN  tempdict' = td.items /\ timestamps' = td.timestamps
              ELSE UNCHANGED <<tempdict, timestamps>>
    /\ UNCHANGED <<now, check_interval, loop, cancel_done, dropped, lifetime,
                   td_schedule>>

\* await asyncio.sleep(self.check_interval): the coroutines dispatched have
\* run by the time the sleep ends
Sleep ==
    /\ loop = "sleeping"
    /\ pending = <<>>
    /\ now + check_interval <= MaxTime
    /\ now' = now + check_interval
    /\ loop' = "ready"
    /\ last' = Call("sleep", ArgNone, "")
    /\ UNCHANGED <<objs, schedules, finished_schedules, canceled_schedules,
                   hidden_schedules, check_interval, pending, cancel_done,
                   dropped, ttl>>

\* the Scheduler with its poll loop and its callers
Next ==
    \/ CreateSchedule
    \/ CancelSchedules
    \/ UncancelSchedules
    \/ HideSchedules
    \/ UnhideSchedules
    \/ ClearSchedules
    \/ Tick
    \/ RunTask
    \/ Sleep

Spec == Init /\ [][Next]_vars

\* the poll loop alone: Schedules are created and then left to it
NextPoll ==
    \/ CreateSchedule
    \/ Tick
    \/ RunTask
    \/ Sleep

SpecPoll == Init /\ [][NextPoll]_vars

\* the administrative API alone, on more Schedules
NextAdmin ==
    \/ CreateBulk
    \/ CancelSchedules
    \/ UncancelSchedules
    \/ HideSchedules
    \/ UnhideSchedules
    \/ ClearSchedules

SpecAdmin == Init /\ [][NextAdmin]_vars

\* Schedules of every kind, hidden and shown while the poll loop runs
NextCreate ==
    \/ CreateAny
    \/ HideSchedules
    \/ UnhideSchedules
    \/ Tick
    \/ RunTask
    \/ Sleep

SpecCreate == Init /\ [][NextCreate]_vars

\* a TempDict, every method of it called, while the poll loop sweeps it
NextTTL ==
    \/ NewTempDict
    \/ SetItem
    \/ GetItem
    \/ Update
    \/ InPlaceOr
    \/ SetDefault
    \/ Pop
    \/ PopItem
    \/ DelItem
    \/ Clear
    \/ Tick
    \/ RunTask
    \/ Sleep

SpecTTL == Init /\ [][NextTTL]_vars

\* a TempDict written and read on a Scheduler whose administrative API is
\* called
NextSweep ==
    \/ NewTempDict
    \/ SetItem
    \/ GetItem
    \/ CancelSchedules
    \/ UncancelSchedules
    \/ ClearSchedules
    \/ Tick
    \/ RunTask
    \/ Sleep

SpecSweep == Init /\ [][NextSweep]_vars

----------------------------------------------------------------------------
\* The claims.

\* the housekeeping Schedule, the first object the constructor creates
Cleaner == 1

Finite(h) == objs[h].times # Inf

\* the list a get_schedules call returns
Returned(arg) == IF arg.kind = "live" THEN schedules ELSE arg.items

\* C1: a Schedule with a finite fire budget is never called more often than
\* its budget allows, whether it is visible or hidden.
C1_CallsWithinBudget ==
    \A h \in DOMAIN objs : Finite(h) => objs[h].calls <= objs[h].times

\* C2: cancel_schedules() with no argument leaves the active-visible bucket
\* empty and appends the Schedules it held, each once and in order, to the
\* canceled bucket.
C2_CancelAll ==
    [][(last'.op = "cancel_schedules" /\ last'.arg = ArgNone)
        => /\ schedules' = <<>>
           /\ canceled_schedules' = canceled_schedules \o schedules]_vars

\* C3: no Schedule is in both the active-visible and the hidden bucket, and
\* none is in both the finished and the canceled bucket.
C3_NoOverlap ==
    /\ Range(schedules) \cap Range(hidden_schedules) = {}
    /\ Range(finished_schedules) \cap Range(canceled_schedules) = {}

\* C4: a Schedule with interval 0 and a finite budget N that only the poll
\* loop touches ends in the finished bucket with calls = N: whenever it is
\* in the finished bucket, calls = N.
C4_FinishedWithBudgetCalls ==
    \A h \in Handles :
        (objs[h].interval = 0 /\ Finite(h) /\ h \in Range(finished_schedules))
            => objs[h].calls = objs[h].times

\* C5: once cancel_schedules(S) has completed, no step changes calls or
\* timestamp of S until S is passed to uncancel_schedules.
C5_CanceledNotDispatched ==
    [][\A h \in cancel_done :
          /\ objs'[h].calls = objs[h].calls
          /\ objs'[h].timestamp = objs[h].timestamp]_vars

\* C6: clear_schedules() empties the active-visible, finished and canceled
\* buckets and leaves the hidden bucket and its Schedules as they were.
C6_ClearKeepsHidden ==
    [][last'.op = "clear_schedules"
        => /\ schedules' = <<>>
           /\ finished_schedules' = <<>>
           /\ canceled_schedules' = <<>>
           /\ hidden_schedules' = hidden_schedules
           /\ \A h \in Range(hidden_schedules) : objs'[h] = objs[h]]_vars

\* clear_schedules was called while the hidden bucket held the housekeeping
\* Schedule and a Schedule that has been called
C6_Witness ==
    /\ last.op = "clear_schedules"
    /\ Len(hidden_schedules) >= 2
    /\ \E h \in Range(hidden_schedules) : objs[h].calls > 0

\* C7: for S in the active-visible bucket, hide_schedules(S) then
\* unhide_schedules(S) leaves the flags of S as they were and S in the
\* active-visible and not in the hidden bucket; hide_schedules(S) twice, and
\* unhide_schedules(S) twice, give what one call gives, without an error.
C7_HideUnhide ==
    \A h \in Handles \cap Range(schedules) :
        LET S == ArgSchedule(h)
            hid == hide_schedules(Buckets, S)
            back == unhide_schedules(hid, S)
            shown == unhide_schedules(Buckets, S)
        IN  /\ back.objs[h].flags = objs[h].flags
            /\ h \in Range(back.schedules)
            /\ h \notin Range(back.hidden_schedules)
            /\ hide_schedules(hid, S) = hid
            /\ unhide_schedules(shown, S) = shown

\* C8: the housekeeping Schedule is in the hidden bucket and in no other,
\* and no get_schedules call returns it.
C8_CleanerStaysHidden ==
    loop # "none" =>
        /\ Cleaner \in Range(hidden_schedules)
        /\ Cleaner \notin Range(schedules) \cup Range(finished_schedules)
                            \cup Range(canceled_schedules)
        /\ \A n \in GetNames, c \in GetChecks :
              Cleaner \notin Range(Returned(get_schedules(Buckets, n, c)))

\* unhide_schedules() was called after the housekeeping Schedule has run and
\* while a Schedule of the caller's was hidden beside it
C8_Witness ==
    /\ last = Call("unhide_schedules", ArgNone, "")
    /\ objs[Cleaner].calls > 0
    /\ Len(hidden_schedules) >= 2

\* C9: a pass of the poll loop in which a task fails does not end the loop.
C9_TaskFailureKeepsLoop ==
    [][(last'.err = "TaskError" /\ loop # "crashed") => loop' # "crashed"]_vars

\* C10: constructing a Scheduler with a check_interval outside (0, 1] fails.
C10_CheckIntervalValidated ==
    (/\ last.op = "Scheduler"
     /\ last.arg.items # <<>>
     /\ (last.arg.items[1] <= 0 \/ last.arg.items[1] > TicksPerSec))
        => last.err = "ValueError"

\* C14: uncancel_schedules() with no argument, called while the canceled
\* bucket holds k >= 0 Schedules (each once, none of them also active), moves
\* every one of them back to the active-visible bucket and leaves the
\* canceled bucket empty.
C14_UncancelAll ==
    [][(/\ last'.op = "uncancel_schedules"
        /\ last'.arg = ArgNone
        /\ Cardinality(Range(canceled_schedules)) = Len(canceled_schedules)
        /\ Range(canceled_schedules) \cap Range(schedules) = {})
        => /\ canceled_schedules' = <<>>
           /\ \A h \in Range(canceled_schedules) : h \in Range(schedules')]_vars

\* C15: unhide_schedules() with no argument works on the hidden bucket: every
\* Schedule the hidden bucket held has its HIDDEN flag cleared, is in the
\* active-visible bucket and is no longer in the hidden bucket.
C15_UnhideDefaultsToHidden ==
    [][(last'.op = "unhide_schedules" /\ last'.arg = ArgNone)
        => \A h \in Range(hidden_schedules) :
              /\ ~HasFlag(objs'[h].flags, HIDDEN)
              /\ h \in Range(schedules')
              /\ h \notin Range(hidden_schedules')]_vars

\* C20: a cancel, uncancel, hide or unhide call that fails with a membership
\* error leaves every bucket and every flag as it was before the call.
C20_FailedCallChangesNothing ==
    [][(/\ last'.op \in {"cancel_schedules", "uncancel_schedules",
                         "hide_schedules", "unhide_schedules"}
        /\ last'.err = "ValueError")
        => /\ schedules' = schedules
           /\ finished_schedules' = finished_schedules
           /\ canceled_schedules' = canceled_schedules
           /\ hidden_schedules' = hidden_schedules
           /\ \A h \in DOMAIN objs : objs'[h].flags = objs[h].flags]_vars

\* created_at + interval * (calls + 1), in float arithmetic
DueTime(o) == FloatAdd(o.created_at, o.interval * (o.calls + 1))

AdminOps ==
    {"cancel_schedules", "uncancel_schedules", "hide_schedules",
     "unhide_schedules", "clear_schedules"}

\* how often a pass that called the Schedules of `fired` called h
Dispatches(fired, h) == Cardinality({i \in DOMAIN fired : fired[i] = h})

\* the due time t after k dispatches of a Schedule of interval d
RECURSIVE Advanced(_, _, _)
Advanced(t, d, k) == IF k = 0 THEN t ELSE Advanced(FloatAdd(t, d), d, k - 1)

\* timestamp = created_at + interval * (calls + 1) for every Schedule
ClosedForm == \A h \in DOMAIN objs : objs[h].timestamp = DueTime(objs[h])

\* a pass of the poll loop dispatches every Schedule of the two active
\* buckets that is due and has budget left
DueIsDispatched ==
    last'.op = "run"
        => \A h \in Range(schedules) \cup Range(hidden_schedules) :
              (objs[h].timestamp <= now /\ objs[h].calls < objs[h].times)
                  => h \in Range(last'.arg.items)

\* C19: in every reachable state every Schedule has timestamp = created_at +
\* interval * (calls + 1); each dispatch of a pass of the poll loop adds
\* interval to timestamp and 1 to calls, and no other step changes either:
\* no cancel, uncancel, hide, unhide or clear call changes timestamp or calls; and
\* a pass of the poll loop dispatches every Schedule of the two active
\* buckets that is due and has budget left.
C19_DueTimeFollowsCalls ==
    /\ []ClosedForm
    /\ [][/\ \A h \in DOMAIN objs :
              /\ last'.op = "run"
                   => /\ objs'[h].calls = objs[h].calls + Dispatches(last'.arg.items, h)
                      /\ objs'[h].timestamp
                           = Advanced(objs[h].timestamp, objs[h].interval,
                                      Dispatches(last'.arg.items, h))
              /\ last'.op # "run"
                   => /\ objs'[h].timestamp = objs[h].timestamp
                      /\ objs'[h].calls = objs[h].calls
              /\ last'.op \in AdminOps
                   => /\ objs'[h].timestamp = objs[h].timestamp
                      /\ objs'[h].calls = objs[h].calls
          /\ DueIsDispatched]_vars

InBucket(h) ==
    h \in Range(schedules) \cup Range(finished_schedules)
            \cup Range(canceled_schedules) \cup Range(hidden_schedules)

\* C18: a pass of the poll loop that finds a hidden Schedule due with its
\* budget spent removes it from the hidden bucket, does not add it to the
\* finished bucket and does not call it; from then on the Schedule is in none
\* of the four buckets and is never called again.
C18_HiddenExhaustedDropped ==
    /\ [](\A h \in dropped : ~InBucket(h))
    /\ [][/\ \A h \in dropped : objs'[h].calls = objs[h].calls
          /\ (last'.op = "run" /\ last'.err = "")
               => \A h \in Range(hidden_schedules) :
                     (/\ HasFlag(objs[h].flags, HIDDEN)
                      /\ objs[h].timestamp <= now
                      /\ objs[h].calls >= objs[h].times)
                         => /\ h \in dropped'
                            /\ h \notin Range(hidden_schedules')
                            /\ Dispatches(finished_schedules', h)
                                 = Dispatches(finished_schedules, h)
                            /\ objs'[h].calls = objs[h].calls]_vars

\* C16: create_schedule with a point in time as interval gives a Schedule
\* with times = 1 and the ONCE flag, whatever times the caller passed, and
\* appends it to the active-visible bucket.
C16_DatetimeFiresOnce ==
    [][(/\ last'.op = "create_schedule"
        /\ last'.arg.kind = "datetime")
        => /\ last'.err = ""
           /\ Len(objs') = Len(objs) + 1
           /\ objs'[Len(objs')].times = 1
           /\ objs'[Len(objs')].flags = ONCE
           /\ schedules' = Append(schedules, Len(objs'))]_vars

\* a Schedule was created for a point in time with an infinite fire budget
\* asked for, after the clock has advanced
C16_Witness ==
    /\ last = Call("create_schedule", [kind |-> "datetime", items |-> <<Inf>>], "")
    /\ now > 0
    /\ objs[Len(objs)].created_at = now

\* the flags ONCE, MULTIPLE and REPEAT of a Schedule
Policy(o) == {f \in {ONCE, MULTIPLE, REPEAT} : HasFlag(o.flags, f)}

\* C17: every Schedule has exactly one of the flags ONCE, MULTIPLE, REPEAT,
\* whatever fire budget it was constructed with (absent, 0, 1, N > 1,
\* infinite): REPEAT when times is infinite, ONCE when it is 1, MULTIPLE when
\* it is finite and above 1; and no step changes these three bits.
C17_OnePolicyFlag ==
    /\ [](\A h \in DOMAIN objs :
            Policy(objs[h]) = IF objs[h].times = Inf THEN {REPEAT}
                              ELSE IF objs[h].times = 1 THEN {ONCE}
                              ELSE {MULTIPLE})
    /\ [][\A h \in DOMAIN objs : Policy(objs'[h]) = Policy(objs[h])]_vars

\* the time since key was last touched, in ticks
Age(key) == now - timestamps[key]

\* the step is a write or a read of the TempDict or a sweep of it
TouchOrSweep ==
    \/ last'.op \in {"setitem", "getitem"}
    \/ td_schedule # 0 /\ last' = Call("task", ArgSchedule(td_schedule), "")

\* C13: the keys of the TempDict are the keys of its timestamps after any
\* sequence of writes, reads (of absent keys too) and sweeps: they are when
\* the TempDict is made, and a write, a read or a sweep that starts with the
\* two sets of keys equal ends with them equal.
C13_KeysHaveTimestamps ==
    /\ DictKeys(tempdict) = DOMAIN timestamps
    /\ [][(TouchOrSweep /\ DictKeys(tempdict) = DOMAIN timestamps)
            => DictKeys(tempdict') = DOMAIN timestamps']_vars

\* key is in the TempDict and was last touched less than lifetime ago
Fresh(key) ==
    /\ key \in DictKeys(tempdict)
    /\ key \in DOMAIN timestamps
    /\ Age(key) < lifetime * TicksPerSec

\* the methods inherited from dict that write or remove items
DictOps == {"update", "ior", "setdefault", "pop", "popitem", "delitem", "clear"}

\* C11: a key last touched less than lifetime ago stays in the TempDict with
\* its value through every step, a sweep at any moment included, unless the
\* step sets it anew (or is a call of a method inherited from dict, which is
\* neither a set nor a read); and a read of it returns its value. So a key
\* set to v and then only read, each read less than lifetime after the touch
\* before it, is read as v every time.
C11_FreshKeyKept ==
    [][\A key \in Keys :
          (Fresh(key) /\ last'.op \notin DictOps)
            => /\ key \in DictKeys(tempdict')
               /\ \/ last'.op = "setitem" /\ last'.arg.items[1] = key
                  \/ DictGet(tempdict', key) = DictGet(tempdict, key)
               /\ (last'.op = "getitem" /\ last'.arg.items[1] = key)
                    => /\ last'.err = ""
                       /\ last'.arg.items = <<key, DictGet(tempdict, key)>>]_vars

\* a sweep has run while a key touched before, less than lifetime ago, was in
\* the TempDict, and has evicted another key
C11_Witness ==
    /\ td_schedule # 0
    /\ last = Call("task", ArgSchedule(td_schedule), "")
    /\ \E key \in Keys : Fresh(key) /\ Age(key) > 0
    /\ \E key \in Keys : key \notin DictKeys(tempdict)

\* key is in the TempDict and was last touched more than lifetime plus one
\* sweep period (1 second) ago
Stale(key) ==
    /\ key \in DictKeys(tempdict)
    /\ key \in DOMAIN timestamps
    /\ Age(key) > (lifetime + 1) * TicksPerSec

\* C12: a key not touched for longer than lifetime + 1 second leaves the
\* TempDict while the poll loop keeps ticking, whatever administrative calls
\* are made: whenever such a key is in the TempDict, the sweep is still a
\* Schedule the poll loop dispatches (in the active-visible or the hidden
\* bucket), and the pass of this instant with the coroutines it dispatched
\* has not yet run.
C12_StaleKeyEvicted ==
    \A key \in Keys :
        Stale(key)
          => /\ td_schedule \in Range(schedules) \cup Range(hidden_schedules)
             /\ ~(loop = "sleeping" /\ pending = <<>>)

====
